---- MODULE Spec2Model ----
(***************************************************************************)
(* Model of the stage pipeline of qhub (src/qhub/base.py): the Stages      *)
(* model (ordered stage list, shared data dict, ExitStack) and the Stage   *)
(* classes with their render / deploy / destroy / check operations.        *)
(*                                                                         *)
(* One Stages operation is run as a sequence of steps                      *)
(*   construct -> enter -> operate -> (check) -> next stage ... -> unwind  *)
(* so that the intermediate states of the loop are visible.  The outcome   *)
(* of every call that leaves base.py (pydantic construction, the terraform *)
(* provider, the tf_objects / input_vars / checks collaborators) is an     *)
(* input of the step.                                                      *)
(*                                                                         *)
(* The module also models src/qhub/render/__init__.py: secret              *)
(* substitution (set_env_vars_in_config), remove_existing_renders and the  *)
(* statements of render_template, each under a specification of its own.   *)
(***************************************************************************)
EXTENDS Naturals, Integers, Sequences, FiniteSets, TLC

\* ---------------------------------------------------------------- bounds
MaxStages == 3
MaxRuns == 2
MaxNameLen == 2
MaxEnvVars == 2

\* --------------------------------------------------------- stage classes
AllStageClasses ==
    { "TerraformStateCloud", "TerraformStateLocal", "Infrastructure",
      "KubernetesInitialize", "KubernetesIngress", "KubernetesKeyCloak",
      "KubernetesKeyCloackConfiguration", "KubernetesServices",
      "QhubTfExtensions" }

\* The classes the pipelines of the model are drawn from.  KubernetesIngress,
\* KubernetesServices and QhubTfExtensions add tf / check / input_vars
\* overrides of the same shape as KubernetesKeyCloak's over the base Stage.
StageClasses ==
    { "TerraformStateCloud", "TerraformStateLocal", "Infrastructure",
      "KubernetesInitialize", "KubernetesKeyCloak",
      "KubernetesKeyCloackConfiguration" }

\* Classes that define tf(); the base Stage and TerraformStateBase do not.
HasTf(c) == c \in AllStageClasses \ {"TerraformStateLocal"}

\* Classes that override check() with a call into qhub.stages.checks.
HasCheck(c) ==
    c \in { "Infrastructure", "KubernetesInitialize", "KubernetesIngress",
            "KubernetesKeyCloak", "KubernetesKeyCloackConfiguration",
            "KubernetesServices" }

\* deploy() of the class: the base Stage.deploy calls the terraform provider,
\* TerraformStateBase.deploy returns {} and TerraformStateCloud.deploy calls
\* self.deploy with keyword arguments that no deploy accepts.
DeployKind(c) ==
    CASE c = "TerraformStateCloud" -> "selfcall"
      [] c = "TerraformStateLocal" -> "empty"
      [] OTHER -> "backend"

\* ------------------------------------------------------------ bus keys
\* Every stage is constructed with directory=self.directory of the Stages
\* model, so Stage.directory is Path("stages") whatever the class declares.
PipelineDirectory == "Path(stages)"
K8sKey == "stage/02-infrastructure"
KcKey == "stages/05-kubernetes-keycloak"

\* The key read by the __enter__ of the class ("none": Task.__enter__).
ScopeKey(c) ==
    CASE c = "KubernetesInitialize" -> K8sKey
      [] c = "KubernetesKeyCloackConfiguration" -> KcKey
      [] OTHER -> "none"

\* The output whose ["value"] the __enter__ of the class reads.
ScopePath(c) ==
    CASE c = "KubernetesInitialize" -> "kubernetes_credentials"
      [] c = "KubernetesKeyCloackConfiguration" -> "keycloak_credentials"
      [] OTHER -> "none"

\* The provider context the __enter__ of the class activates.
ScopeContext(c) ==
    CASE c = "KubernetesInitialize" -> "kubernetes"
      [] c = "KubernetesKeyCloackConfiguration" -> "keycloak"
      [] OTHER -> "none"

\* A bus entry: who produced it and which outputs carry a "value".
Entry(src, outs) == [src |-> src, outs |-> outs]
EmptyEntry == Entry("empty", {})
TfEntry(c) ==
    Entry(IF c = "QhubTfExtensions" THEN "tf:KubernetesServices" ELSE "tf:" \o c, {})

\* dict[key] = value
Put(d, k, v) == [x \in DOMAIN d \cup {k} |-> IF x = k THEN v ELSE d[x]]
\* dict.setdefault(key, value)
SetDefault(d, k, v) == IF k \in DOMAIN d THEN d ELSE Put(d, k, v)

\* The data dicts a caller may construct Stages with: the default (empty)
\* and dicts that carry the entries the credential scopes read, each with
\* or without its credential output.
CallerEntries(k) ==
    { Entry("caller", {}),
      Entry("caller", {IF k = K8sKey THEN "kubernetes_credentials"
                                     ELSE "keycloak_credentials"}) }
InitialData ==
    { << >> } \cup
    { d \in [{K8sKey, KcKey} -> CallerEntries(K8sKey) \cup CallerEntries(KcKey)] :
        \A k \in {K8sKey, KcKey} : d[k] \in CallerEntries(k) }

\* The stage lists of the model: up to MaxStages distinct stage classes.
Pipelines ==
    UNION { { p \in [1..n -> StageClasses] :
                \A j, k \in 1..n : j # k => p[j] # p[k] } :
            n \in 1..MaxStages }

Operations == {"render", "deploy", "destroy"}

\* ------------------------------------------------------------ providers
\* The provider marker classes: Local has no alias.
AllProviders == {"local", "gcp", "do", "aws", "azure"}

\* The default of Stages.Config.provider.
DefaultProvider == "aws"

\* The provider marker classes a stage class inherits from; All is
\* (Local, GoogleCloud, AmazonWebServices, Azure).
Capability(c) ==
    CASE c = "TerraformStateCloud" -> {"do", "aws", "azure"}
      [] c = "TerraformStateLocal" -> {"local"}
      [] OTHER -> {"local", "gcp", "aws", "azure"}

\* The directory field a stage class declares ("none": the class inherits
\* the required field of Task without a default).
DeclaredDirectory(c) ==
    CASE c \in {"TerraformStateCloud", "TerraformStateLocal"} -> "01-terraform-state"
      [] c = "Infrastructure" -> "02-infrastructure"
      [] OTHER -> "none"

\* Stages.directory
PipelineRoot == "stages"

\* The directory field of a stage as the loop constructs it:
\* stage(directory=self.directory, parent=self) overrides the declared default.
ConstructedDirectory(c) == PipelineRoot

\* Stage.target: self.parent.directory / self.directory / provider
Target(c, prov) == << PipelineRoot, ConstructedDirectory(c), prov >>

\* The arguments of one terraform.deploy call.
Invocation(idx, c, prov, init, imports, apply, destroy) ==
    [idx |-> idx, target |-> Target(c, prov), init |-> init, imports |-> imports,
     apply |-> apply, destroy |-> destroy]

VARIABLES stages, data, stack, op, i, pc, exc, result, log, runs, call,
          provider, backend, prev

\* The state of the stage pipeline (src/qhub/base.py).
pipeVars == <<stages, data, stack, op, i, pc, exc, result, log, runs, call,
              provider, backend, prev>>

\* The inputs and results of the functions of src/qhub/render/__init__.py:
\* the configuration and the environment of set_env_vars_in_config with
\* its result, and the entries under dest_repo_dir, whether the working
\* directory is the home directory, and the result of
\* remove_existing_renders; the statement render_template has reached and
\* how it ended.
VARIABLES config, environ, secretOut, tree, home, removeOut, step, renderOut

renderVars == <<config, environ, secretOut, tree, home, removeOut, step, renderOut>>

vars == <<pipeVars, renderVars>>

\* ------------------------------------------------- secret substitution
\* Strings are sequences of characters.
Prefix == << "Q", "H", "U", "B", "_", "S", "E", "C", "R", "E", "T", "_" >>

\* The characters environment variable names are built from in the model:
\* one that occurs in "QHUB_SECRET_" and one that does not.
NameChars == {"S", "K"}

Names == UNION { [1..n -> NameChars] : n \in 1..MaxNameLen }

\* A configuration value that is not a secret placeholder.
PlainValue == << "p", "l", "a", "i", "n" >>

\* The keys of the configuration of the model, in dict order.
ConfigKeys == << "a", "b" >>

ConfigValues == { Prefix \o n : n \in Names } \cup { PlainValue }

Configs == [ { ConfigKeys[k] : k \in 1..Len(ConfigKeys) } -> ConfigValues ]

\* Environments: at most MaxEnvVars variables, each set to a non-empty
\* value or to the empty string.
Environments ==
    UNION { [S -> {"set", "empty"}] :
            S \in { T \in SUBSET Names : Cardinality(T) <= MaxEnvVars } }

\* The value of a variable that is set to a non-empty value.
EnvValue(n) == << "$" >> \o n

\* The result of os.environ.get for a variable that is not set.
NoneValue == << "None" >>

\* os.environ.get(name)
EnvironGet(e, n) ==
    IF n \notin DOMAIN e THEN NoneValue
    ELSE IF e[n] = "set" THEN EnvValue(n) ELSE << >>

\* "QHUB_SECRET_" in str(value)
Contains(sub, str) ==
    \E k \in 0..(Len(str) - Len(sub)) : SubSeq(str, k + 1, k + Len(sub)) = sub

CharsOf(str) == { str[k] : k \in 1..Len(str) }

\* str.lstrip(chars): drops every leading character that is in chars.
RECURSIVE LStrip(_, _)
LStrip(str, chars) ==
    IF str # << >> /\ Head(str) \in chars THEN LStrip(Tail(str), chars) ELSE str

\* get_qhub_secret: the name looked up for a placeholder.
SecretEnvVar(placeholder) == LStrip(placeholder, CharsOf(Prefix))

\* get_secret_config_entries on a flat configuration: the keys whose value
\* contains "QHUB_SECRET_", in dict order.
SecretEntries(c) ==
    SelectSeq(ConfigKeys, LAMBDA k : Contains(Prefix, c[k]))

SecretResult(status, c) == [status |-> status, config |-> c]

\* The loop of set_env_vars_in_config over the entries ks: set_qhub_secret
\* replaces each placeholder, get_qhub_secret raises when the variable is
\* unset or empty.
RECURSIVE SetSecrets(_, _, _)
SetSecrets(c, ks, e) ==
    IF ks = << >> THEN SecretResult("returned", c)
    ELSE LET val == EnvironGet(e, SecretEnvVar(c[Head(ks)])) IN
           IF val = NoneValue \/ val = << >>
             THEN SecretResult("EnvironmentError", c)
             ELSE SetSecrets([c EXCEPT ![Head(ks)] = val], Tail(ks), e)

NoSecretOut == SecretResult("none", << >>)

\* ----------------------------------------------- remove_existing_renders
DeletableDirs ==
    << "terraform-state", ".github", "infrastructure", "image", ".gitlab-ci.yml" >>

\* The entries under dest_repo_dir in the model: the deletable ones and two
\* that the function must leave alone.
EntryNames ==
    { DeletableDirs[k] : k \in 1..Len(DeletableDirs) } \cup
    { "qhub-config.yaml", ".gitignore" }

EntryKinds == {"absent", "dir", "file"}

RemoveResult(status, t) == [status |-> status, tree |-> t]

NoRemoveOut == RemoveResult("none", << >>)

\* The loop over deletable_dirs from position k: an entry that exists is
\* passed to shutil.rmtree, which removes a directory, raises for the
\* directories in failing (an OSError while deleting) and raises
\* NotADirectoryError for a regular file.
RECURSIVE RemoveFrom(_, _, _, _)
RemoveFrom(names, k, t, failing) ==
    IF k > Len(names) THEN RemoveResult("returned", t)
    ELSE LET e == names[k] IN
           IF t[e] = "absent" THEN RemoveFrom(names, k + 1, t, failing)
           ELSE IF t[e] = "file" THEN RemoveResult("NotADirectoryError", t)
           ELSE IF e \in failing THEN RemoveResult("OSError", t)
           ELSE RemoveFrom(names, k + 1, [t EXCEPT ![e] = "absent"], failing)

\* Variant of RemoveExisting: the last entry of deletable_dirs is left out.
RemoveExistingShort(t, atHome, failing) ==
    IF atHome THEN RemoveResult("ValueError", t)
    ELSE RemoveFrom(SubSeq(DeletableDirs, 1, Len(DeletableDirs) - 1), 1, t, failing)

\* remove_existing_renders(dest_repo_dir)
RemoveExisting(t, atHome, failing) ==
    IF atHome THEN RemoveResult("ValueError", t)
    ELSE RemoveFrom(DeletableDirs, 1, t, failing)

\* The render module is not in use.
RenderIdle ==
    /\ config = [k \in { ConfigKeys[j] : j \in 1..Len(ConfigKeys) } |-> PlainValue]
    /\ environ = << >>
    /\ secretOut = NoSecretOut
    /\ tree = [e \in EntryNames |-> "absent"]
    /\ home = FALSE
    /\ removeOut = NoRemoveOut
    /\ step = 0
    /\ renderOut = "none"

\* Stages() with its defaults: no stage, no data.
PipelineIdle ==
    /\ stages = << >>
    /\ data = << >>
    /\ stack = << >>
    /\ op = "none"
    /\ i = 0
    /\ pc = "idle"
    /\ exc = "none"
    /\ result = "none"
    /\ log = << >>
    /\ runs = 0
    /\ call = [cls |-> "none", ignore_errors |-> FALSE, out |-> "none", ret |-> "none"]
    /\ provider = DefaultProvider
    /\ backend = << >>
    /\ prev = [rendered |-> FALSE, data |-> << >>]

\* set_env_vars_in_config(config)
SetEnvVarsInConfig ==
    /\ secretOut = NoSecretOut
    /\ secretOut' = SetSecrets(config, SecretEntries(config), environ)
    /\ step = 0
    /\ UNCHANGED <<pipeVars, config, environ, tree, home, removeOut, step, renderOut>>

InitSecret ==
    /\ PipelineIdle
    /\ config \in Configs
    /\ environ \in Environments
    /\ secretOut = NoSecretOut
    /\ tree = [e \in EntryNames |-> "absent"]
    /\ home = FALSE
    /\ removeOut = NoRemoveOut
    /\ step = 0
    /\ renderOut = "none"

NextSecret == SetEnvVarsInConfig

SpecSecret == InitSecret /\ [][NextSecret]_vars

\* remove_existing_renders(dest_repo_dir), with the directories whose
\* rmtree raises as an input.
RemoveExistingRenders(failing) ==
    /\ removeOut = NoRemoveOut
    /\ removeOut' = RemoveExisting(tree, home, failing)
    /\ step = 0
    /\ UNCHANGED <<pipeVars, config, environ, secretOut, tree, home, step, renderOut>>

InitRemove ==
    /\ PipelineIdle
    /\ config = [k \in { ConfigKeys[j] : j \in 1..Len(ConfigKeys) } |-> PlainValue]
    /\ environ = << >>
    /\ secretOut = NoSecretOut
    /\ tree \in [EntryNames -> EntryKinds]
    /\ home \in BOOLEAN
    /\ removeOut = NoRemoveOut
    /\ step = 0
    /\ renderOut = "none"

\* At most one directory is taken to fail: the loop stops at the first.
NextRemove ==
    \E failing \in { {} } \cup { {DeletableDirs[k]} : k \in 1..Len(DeletableDirs) } :
        RemoveExistingRenders(failing)

SpecRemove == InitRemove /\ [][NextRemove]_vars

\* ------------------------------------------------------ render_template
\* Variant of RenderSteps: the existing renders are removed right after the
\* configuration is loaded.
RenderStepsEarly ==
    << "load", "remove", "secrets", "dask", "patch", "generate" >>

\* The statements of render_template that can fail, in program order: the
\* directory and file checks with yaml.safe_load, set_env_vars_in_config,
\* patch_dask_gateway_extra_config, the patches applied to the ChainMap,
\* remove_existing_renders and generate_files.
RenderSteps ==
    << "load", "secrets", "dask", "patch", "remove", "generate" >>

\* The env codes an extension of the configuration may carry ("none": the
\* configuration has no extension).
ExtensionCodes == {"none", "KEYCLOAK", "OAUTH2CLIENT", "JWT", "BOGUS"}

\* patch_terraform_extensions: any code but the three known ones raises.
PatchExtensions(code) ==
    IF code \in {"none", "KEYCLOAK", "OAUTH2CLIENT", "JWT"} THEN "ok" ELSE "ValueError"

\* render_template is at statement s.
AtStep(s) ==
    /\ step \in 1..Len(RenderSteps)
    /\ RenderSteps[step] = s
    /\ renderOut = "none"

\* The statement at hand ended with status: the next statement, the
\* return of render_template, or the exception leaving it.
Proceed(status) ==
    IF status # "ok" THEN step' = step /\ renderOut' = status
    ELSE IF step < Len(RenderSteps) THEN step' = step + 1 /\ renderOut' = "none"
    ELSE step' = step /\ renderOut' = "returned"

\* input_directory.is_dir(), mkdir, filename.is_file() and yaml.safe_load
RtLoad(isFile) ==
    /\ AtStep("load")
    /\ Proceed(IF isFile THEN "ok" ELSE "ValueError")
    /\ UNCHANGED <<pipeVars, config, environ, secretOut, tree, home, removeOut>>

\* set_env_vars_in_config(config)
RtSecrets ==
    /\ AtStep("secrets")
    /\ secretOut' = SetSecrets(config, SecretEntries(config), environ)
    /\ Proceed(IF secretOut'.status = "returned" THEN "ok" ELSE secretOut'.status)
    /\ UNCHANGED <<pipeVars, config, environ, tree, home, removeOut>>

\* config["repo_directory"] = ...; patch_dask_gateway_extra_config(config)
\* reads config["namespace"].
RtDask(hasNamespace) ==
    /\ AtStep("dask")
    /\ Proceed(IF hasNamespace THEN "ok" ELSE "KeyError")
    /\ UNCHANGED <<pipeVars, config, environ, secretOut, tree, home, removeOut>>

\* patch_versioning_extra_config, patch_terraform_users and
\* patch_terraform_extensions on the ChainMap.
RtPatch(code) ==
    /\ AtStep("patch")
    /\ Proceed(PatchExtensions(code))
    /\ UNCHANGED <<pipeVars, config, environ, secretOut, tree, home, removeOut>>

\* remove_existing_renders(dest_repo_dir=output_directory / repo_directory)
RtRemove(failing) ==
    /\ AtStep("remove")
    /\ removeOut' = RemoveExisting(tree, home, failing)
    /\ Proceed(IF removeOut'.status = "returned" THEN "ok" ELSE removeOut'.status)
    /\ UNCHANGED <<pipeVars, config, environ, secretOut, tree, home>>

\* generate_files(...) of cookiecutter
RtGenerate(out) ==
    /\ AtStep("generate")
    /\ Proceed(out)
    /\ UNCHANGED <<pipeVars, config, environ, secretOut, tree, home, removeOut>>

\* The output directory render_template finds: nothing rendered yet, a
\* previous render, or a previous render whose .gitlab-ci.yml is a file.
RenderedTrees ==
    { [e \in EntryNames |-> "absent"],
      [e \in EntryNames |-> IF e \in {"qhub-config.yaml", ".gitignore"}
                              THEN "file" ELSE "dir"],
      [e \in EntryNames |-> IF e \in {"qhub-config.yaml", ".gitignore", ".gitlab-ci.yml"}
                              THEN "file" ELSE "dir"] }

\* render_template is called on a configuration with at most one secret
\* placeholder.
InitRender ==
    /\ PipelineIdle
    /\ config \in { c \in Configs : c[ConfigKeys[1]] = PlainValue }
    /\ environ \in Environments
    /\ secretOut = NoSecretOut
    /\ tree \in RenderedTrees
    /\ home \in BOOLEAN
    /\ removeOut = NoRemoveOut
    /\ step = 1
    /\ renderOut = "none"

NextRender ==
    \/ \E isFile \in BOOLEAN : RtLoad(isFile)
    \/ RtSecrets
    \/ \E hasNamespace \in BOOLEAN : RtDask(hasNamespace)
    \/ \E code \in ExtensionCodes : RtPatch(code)
    \/ \E failing \in { {} } \cup { {DeletableDirs[k]} : k \in 1..Len(DeletableDirs) } :
          RtRemove(failing)
    \/ \E out \in {"ok", "Exception"} : RtGenerate(out)

SpecRender == InitRender /\ [][NextRender]_vars

\* What is remembered of the operation before the current one: whether it
\* was a render that returned, and if so the bus it left.
Previous(o, r, d) ==
    IF o = "render" /\ r = "returned"
      THEN [rendered |-> TRUE, data |-> d]
      ELSE [rendered |-> FALSE, data |-> << >>]

\* The outcomes a call out of base.py can have.
Outcomes ==
    {"ok", "ValidationError", "KeyError", "AttributeError", "TypeError",
     "TerraformException", "Exception"}

NoCall == [cls |-> "none", ignore_errors |-> FALSE, out |-> "none", ret |-> "none"]

Event(ev, idx, res) == [ev |-> ev, idx |-> idx, res |-> res]

\* Stages constructed with a provider p, a stage list and a data dict.
InitWith(p) ==
    /\ stages \in Pipelines
    /\ data \in InitialData
    /\ stack = <<>>
    /\ op = "none"
    /\ i = 0
    /\ pc = "idle"
    /\ exc = "none"
    /\ result = "none"
    /\ log = <<>>
    /\ runs = 0
    /\ call = NoCall
    /\ provider = p
    /\ backend = << >>
    /\ prev = Previous("none", "none", data)
    /\ RenderIdle

\* Stages constructed with the default configuration.
Init == InitWith(DefaultProvider)

\* Stages constructed with any provider setting.
InitProvider == \E p \in AllProviders : InitWith(p)

\* Stages.render / deploy / destroy: "with self.stack as stack:" and the
\* first iteration of the loop over get_stages().
Start(o) ==
    /\ pc = "idle"
    /\ runs < MaxRuns
    /\ op' = o
    /\ i' = 1
    /\ pc' = "construct"
    /\ exc' = "none"
    /\ result' = "none"
    /\ log' = <<>>
    /\ runs' = runs + 1
    /\ call' = NoCall
    /\ backend' = << >>
    /\ prev' = Previous(op, result, data)
    /\ UNCHANGED <<stages, data, stack, provider>>
    /\ UNCHANGED renderVars

\* pydantic construction "stage(directory=self.directory, parent=self)":
\* Task declares a required field name, so whether the call validates is
\* decided by the stage descriptor and is an input of the step.
ConstructOutcomes == {"ok", "ValidationError"}

Construct(out) ==
    /\ pc = "construct"
    /\ out \in ConstructOutcomes
    /\ log' = Append(log, Event("construct", i, out))
    /\ IF out = "ok"
         THEN /\ pc' = "enter"
              /\ exc' = exc
         ELSE /\ pc' = "unwind"
              /\ exc' = out
    /\ UNCHANGED <<stages, data, stack, op, i, result, runs, call, provider, backend, prev>>
    /\ UNCHANGED renderVars

\* Variant of Credential: a missing credential output is read as an empty
\* credential instead of raising.
CredentialLenient(d, c) ==
    IF ScopeKey(c) \in DOMAIN d THEN "ok" ELSE "KeyError"

\* The lookups of KubernetesInitialize.__enter__ and
\* KubernetesKeyCloackConfiguration.__enter__:
\*   data = self.parent.data[key]; data = data[path]["value"]
Credential(d, c) ==
    IF ScopeKey(c) \in DOMAIN d /\ ScopePath(c) \in d[ScopeKey(c)].outs
      THEN "ok"
      ELSE "KeyError"

StackItem(kind, idx) == [kind |-> kind, idx |-> idx]

\* Variant of EnterStack: the provider context is not registered on the
\* parent's stack (it is left when __enter__ returns).
EnterStackLocal(s, c, idx) == Append(s, StackItem("stage", idx))

\* The stack after stack.enter_context(stage) succeeded: __enter__ of a
\* scoped class first pushes the provider context on the parent's stack,
\* then enter_context pushes the stage's own __exit__.
EnterStack(s, c, idx) ==
    IF ScopeKey(c) = "none"
      THEN Append(s, StackItem("stage", idx))
      ELSE Append(Append(s, StackItem(ScopeContext(c), idx)),
                  StackItem("stage", idx))

\* stack.enter_context(stage)
Enter ==
    /\ pc = "enter"
    /\ LET c == stages[i] IN
         IF ScopeKey(c) = "none"
           THEN /\ stack' = EnterStack(stack, c, i)
                /\ log' = Append(log, Event("enter", i, "ok"))
                /\ pc' = "operate"
                /\ exc' = exc
           ELSE IF Credential(data, c) = "ok"
             THEN /\ stack' = EnterStack(stack, c, i)
                  /\ log' = log \o << Event("activate", i, ScopeContext(c)),
                                      Event("enter", i, "ok") >>
                  /\ pc' = "operate"
                  /\ exc' = exc
             ELSE /\ stack' = stack
                  /\ log' = Append(log, Event("enter", i, Credential(data, c)))
                  /\ pc' = "unwind"
                  /\ exc' = Credential(data, c)
    /\ UNCHANGED <<stages, data, op, i, result, runs, call, provider, backend, prev>>
    /\ UNCHANGED renderVars

\* Outcomes of self.tf() inside Stage.render.
RenderOutcomes(c) == IF HasTf(c) THEN {"ok", "Exception"} ELSE {"AttributeError"}

\* Outcomes of the deploy() of class c, called without arguments
\* (Stages.deploy) or with four positional arguments (Stage.destroy).
\* "Exception": input_vars() / state_imports() raised before the backend
\* was called; "TerraformException": the backend call raised.
DeployOutcomes(c, withArgs) ==
    CASE DeployKind(c) = "backend" -> {"ok", "TerraformException", "Exception"}
      [] DeployKind(c) = "empty" -> IF withArgs THEN {"TypeError"} ELSE {"ok"}
      [] DeployKind(c) = "selfcall" ->
            IF withArgs THEN {"TypeError"} ELSE {"TypeError", "Exception"}

\* Whether terraform.deploy was reached by the deploy() of class c.
BackendCalled(c, out) ==
    DeployKind(c) = "backend" /\ out \in {"ok", "TerraformException"}

\* What a deploy() of class c that did not raise returns: the outputs the
\* terraform provider reported, or {} for TerraformStateBase.deploy.
DeployOutput(c) ==
    IF DeployKind(c) = "backend"
      THEN Entry("terraform:" \o c, {ScopePath(k) : k \in {"KubernetesInitialize",
                                                         "KubernetesKeyCloackConfiguration"}})
      ELSE EmptyEntry

\* Outcomes of check().
CheckOutcomes(c) == IF HasCheck(c) THEN {"ok", "Exception"} ELSE {"ok"}

\* The key Stage.render writes: self.directory.
WriteKey(c) == PipelineDirectory

\* Variant of StageRender: the new output is merged into the entry that
\* is already there.
StageRenderMerge(d, c, out) ==
    LET d1 == SetDefault(d, PipelineDirectory, EmptyEntry) IN
      IF out = "ok"
        THEN Put(d1, PipelineDirectory,
                 Entry(TfEntry(c).src,
                       d1[PipelineDirectory].outs \cup {d1[PipelineDirectory].src}))
        ELSE d1

\* Variant of StageRender: the entry is reset with an assignment instead of
\* setdefault before tf() is called.
StageRenderClobber(d, c, out) ==
    IF out = "ok"
      THEN Put(d, PipelineDirectory, TfEntry(c))
      ELSE Put(d, PipelineDirectory, EmptyEntry)

\* Stage.render: setdefault, then the assignment of self.tf().
StageRender(d, c, out) ==
    IF out = "ok"
      THEN Put(SetDefault(d, PipelineDirectory, EmptyEntry),
               PipelineDirectory, TfEntry(c))
      ELSE SetDefault(d, PipelineDirectory, EmptyEntry)

\* Stage.destroy: "True", "False" or "raise", from the outcome of
\* self.deploy(init, imports, apply, destroy).
StageDestroy(ignore_errors, out) ==
    CASE out = "ok" -> "True"
      [] out = "TerraformException" ->
            IF ignore_errors THEN "raise" ELSE "False"
      [] OTHER -> "raise"

\* Whether the stage operation called by the loop raises into the loop.
Raises(o, out) ==
    IF o = "destroy" THEN StageDestroy(FALSE, out) = "raise" ELSE out # "ok"

\* Variant of AfterOperate: an error of the stage operation is swallowed
\* and the loop goes on.
AfterOperateSwallow(o, out) ==
    IF Raises(o, out) THEN "next"
    ELSE IF o = "deploy" THEN "check"
    ELSE "next"

\* Variant of AfterOperate: deploy does not call check().
AfterOperateNoCheck(o, out) ==
    IF Raises(o, out) THEN "unwind" ELSE "next"

\* Where the loop body goes after the stage operation.
AfterOperate(o, out) ==
    IF Raises(o, out) THEN "unwind"
    ELSE IF o = "deploy" THEN "check"
    ELSE "next"

\* Variant of Advance: the iteration steps over every other stage.
AdvanceSkip(target) ==
    IF target = "next"
      THEN /\ i' = IF i + 1 < Len(stages) THEN i + 2 ELSE i
           /\ pc' = IF i + 1 < Len(stages) THEN "construct" ELSE "unwind"
      ELSE /\ i' = i
           /\ pc' = target

\* The end of one iteration: the next stage, or the end of the with block.
Advance(target) ==
    IF target = "next"
      THEN /\ i' = IF i < Len(stages) THEN i + 1 ELSE i
           /\ pc' = IF i < Len(stages) THEN "construct" ELSE "unwind"
      ELSE /\ i' = i
           /\ pc' = target

OperateOutcomes(o, c) ==
    CASE o = "render" -> RenderOutcomes(c)
      [] o = "deploy" -> DeployOutcomes(c, FALSE)
      [] o = "destroy" -> DeployOutcomes(c, TRUE)

BackendEvents(o, c, out) ==
    IF o # "render" /\ BackendCalled(c, out)
      THEN << Event("backend", i, out) >>
      ELSE << >>

\* The terraform.deploy calls made by one stage operation: Stage.deploy is
\* called with its defaults by Stages.deploy and with
\* (init, imports, apply, destroy) = (True, True, False, True) by the
\* defaults of Stage.destroy.
BackendInvocations(o, idx, c, prov, out) ==
    IF o = "render" \/ ~BackendCalled(c, out) THEN << >>
    ELSE IF o = "deploy"
      THEN << Invocation(idx, c, prov, TRUE, FALSE, TRUE, FALSE) >>
      ELSE << Invocation(idx, c, prov, TRUE, TRUE, FALSE, TRUE) >>

\* stage.render() / stage.deploy() / stage.destroy()
Operate(out) ==
    /\ pc = "operate"
    /\ out \in OperateOutcomes(op, stages[i])
    /\ log' = log \o BackendEvents(op, stages[i], out) \o << Event("op", i, out) >>
    /\ data' = IF op = "render" THEN StageRender(data, stages[i], out) ELSE data
    /\ exc' = IF Raises(op, out) THEN out ELSE exc
    /\ Advance(AfterOperate(op, out))
    /\ backend' = backend \o BackendInvocations(op, i, stages[i], provider, out)
    /\ UNCHANGED <<stages, stack, op, result, runs, call, provider, prev>>
    /\ UNCHANGED renderVars

\* stage.check() of Stages.deploy
Check(out) ==
    /\ pc = "check"
    /\ out \in CheckOutcomes(stages[i])
    /\ log' = Append(log, Event("check", i, out))
    /\ exc' = IF out = "ok" THEN exc ELSE out
    /\ Advance(IF out = "ok" THEN "next" ELSE "unwind")
    /\ UNCHANGED <<stages, data, stack, op, result, runs, call, provider, backend, prev>>
    /\ UNCHANGED renderVars

\* Variant of UnwindIndex: callbacks run in registration order.
UnwindFirst(s) == IF s = << >> THEN 0 ELSE 1

\* ExitStack.__exit__ pops the callback registered last.
UnwindIndex(s) == Len(s)

RemoveAt(s, k) == [j \in 1..(Len(s) - 1) |-> IF j < k THEN s[j] ELSE s[j + 1]]

\* One callback of ExitStack.__exit__: Task.__exit__ of a stage, or the
\* exit of a provider context.
ExitOne ==
    /\ pc = "unwind"
    /\ stack # <<>>
    /\ LET k == UnwindIndex(stack) IN
         /\ stack' = RemoveAt(stack, k)
         /\ log' = Append(log,
                IF stack[k].kind = "stage"
                  THEN Event("exit", stack[k].idx, "ok")
                  ELSE Event("deactivate", stack[k].idx, stack[k].kind))
    /\ UNCHANGED <<stages, data, op, i, pc, exc, result, runs, call, provider, backend, prev>>
    /\ UNCHANGED renderVars

\* The with block is left: the operation returns, or the pending
\* exception reaches the caller.
Finish ==
    /\ pc = "unwind"
    /\ stack = <<>>
    /\ pc' = "idle"
    /\ result' = IF exc = "none" THEN "returned" ELSE "raised"
    /\ UNCHANGED <<stages, data, stack, op, i, exc, log, runs, call, provider, backend, prev>>
    /\ UNCHANGED renderVars

\* A direct call stage.destroy(ignore_errors=ig) on a stage of the pipeline,
\* outside a Stages operation.
DestroyCall(k, ig, out) ==
    /\ pc = "idle"
    /\ call = NoCall
    /\ k \in 1..Len(stages)
    /\ out \in DeployOutcomes(stages[k], TRUE)
    /\ call' = [cls |-> stages[k], ignore_errors |-> ig, out |-> out,
                ret |-> StageDestroy(ig, out)]
    /\ backend' = backend \o BackendInvocations("destroy", k, stages[k], provider, out)
    /\ UNCHANGED <<stages, data, stack, op, i, pc, exc, result, log, runs,
                   provider, prev>>
    /\ UNCHANGED renderVars

Next ==
    \/ \E o \in Operations : Start(o)
    \/ \E out \in ConstructOutcomes : Construct(out)
    \/ Enter
    \/ \E out \in Outcomes : Operate(out)
    \/ \E out \in Outcomes : Check(out)
    \/ ExitOne
    \/ Finish

Spec == Init /\ [][Next]_vars

\* One Stages operation on a pipeline configured with any provider.
NextProvider ==
    \/ \E o \in Operations : runs = 0 /\ Start(o)
    \/ \E out \in ConstructOutcomes : Construct(out)
    \/ Enter
    \/ \E out \in Outcomes : Operate(out)
    \/ \E out \in Outcomes : Check(out)
    \/ ExitOne
    \/ Finish

SpecProvider == InitProvider /\ [][NextProvider]_vars

\* Direct calls of Stage.destroy on the stages of a pipeline.
NextDestroy ==
    \E k \in 1..MaxStages, ig \in BOOLEAN, out \in Outcomes : DestroyCall(k, ig, out)

SpecDestroy == Init /\ [][NextDestroy]_vars

\* ------------------------------------------------------------ history
Reverse(s) == [j \in 1..Len(s) |-> s[Len(s) + 1 - j]]

Resource(e) ==
    IF e.ev \in {"activate", "deactivate"}
      THEN StackItem(e.res, e.idx)
      ELSE StackItem("stage", e.idx)

EnterEvents(l) ==
    SelectSeq(l, LAMBDA e : e.ev = "activate" \/ (e.ev = "enter" /\ e.res = "ok"))

ExitEvents(l) == SelectSeq(l, LAMBDA e : e.ev \in {"deactivate", "exit"})

\* The scopes and provider contexts entered / exited in this run, in order.
Entered(l) == [j \in 1..Len(EnterEvents(l)) |-> Resource(EnterEvents(l)[j])]
Exited(l) == [j \in 1..Len(ExitEvents(l)) |-> Resource(ExitEvents(l)[j])]

InLoop == pc \in {"construct", "enter", "operate", "check"}
Finished == pc = "idle" /\ result # "none"

\* Only unwinding follows position n of the log.
OnlyUnwindAfter(n) ==
    \A m \in (n + 1)..Len(log) : log[m].ev \in {"exit", "deactivate"}

\* ------------------------------------------------------------- claims

\* C1: when a Stages operation has returned or raised, every stage scope
\* and provider context that was entered has been exited exactly once, in
\* the reverse of the order of entry, and the resource stack is empty.
C1_UnwoundInReverse ==
    Finished => /\ stack = << >>
                /\ Exited(log) = Reverse(Entered(log))

\* C1 witness: an operation that raised from a scope entry after a provider
\* context and a stage scope had been entered.
C1_Witness ==
    /\ Finished
    /\ result = "raised"
    /\ exc = "KeyError"
    /\ Len(Entered(log)) >= 2
    /\ \E n \in 1..Len(log) : log[n].ev = "activate"

\* C2: in render and deploy, after the operation of the stage at position k
\* raised, no later stage is constructed, entered or operated, and when the
\* error has reached the caller every entered scope has been exited.
C2_ErrorAborts ==
    op \in {"render", "deploy"} =>
        /\ \A n \in 1..Len(log) :
              (log[n].ev = "op" /\ log[n].res # "ok") =>
                  /\ OnlyUnwindAfter(n)
                  /\ \A m \in 1..Len(log) :
                        log[m].ev \in {"construct", "enter", "op"} =>
                            log[m].idx <= log[n].idx
                  /\ ~InLoop
        /\ (result = "raised" =>
                /\ stack = << >>
                /\ Len(Exited(log)) = Len(Entered(log)))

\* C2 witness: a render or deploy that raised from the operation of a stage
\* that is neither the first nor the last of the pipeline.
C2_Witness ==
    /\ Finished
    /\ op \in {"render", "deploy"}
    /\ \E n \in 1..Len(log) :
          /\ log[n].ev = "op"
          /\ log[n].res # "ok"
          /\ log[n].idx > 1
          /\ log[n].idx < Len(stages)

\* C3 (as claimed): once Stages.deploy has completed the deploy and the
\* check of a stage without error, the bus holds the outputs that deploy
\* returned under the stage's key (its directory).
C3_DeployWritesBus ==
    (op = "deploy" /\ log # << >> /\ log[Len(log)].ev = "check"
                   /\ log[Len(log)].res = "ok") =>
        /\ PipelineDirectory \in DOMAIN data
        /\ data[PipelineDirectory] = DeployOutput(stages[log[Len(log)].idx])

\* C4 (as claimed): a provider context activated by the scope of stage N is
\* no longer active when the scope or the operation of a later stage
\* begins.
C4_ContextEndsWithStage ==
    pc \in {"enter", "operate", "check"} =>
        \A k \in 1..Len(stack) :
            stack[k].kind # "stage" => stack[k].idx = i

\* C4 (amended): a provider context activated by the scope of stage N stays
\* active through the scopes and operations of every later stage of the
\* run; it is deactivated only by the unwinding of the resource stack, and
\* once the operation has returned or raised no context is active.
C4_ContextHeldUntilUnwind ==
    /\ InLoop =>
          /\ ExitEvents(log) = << >>
          /\ \A n \in 1..Len(log) :
                log[n].ev = "activate" =>
                    \E k \in 1..Len(stack) : stack[k] = Resource(log[n])
    /\ Finished =>
          /\ stack = << >>
          /\ \A n \in 1..Len(log) :
                log[n].ev = "activate" =>
                    \E m \in (n + 1)..Len(log) :
                        /\ log[m].ev = "deactivate"
                        /\ Resource(log[m]) = Resource(log[n])

\* C4 witness: a later stage is being operated while the provider context
\* of an earlier stage is on the stack.
C4_Witness ==
    /\ pc = "operate"
    /\ \E n \in 1..Len(log) : log[n].ev = "activate" /\ log[n].idx < i
    /\ \E k \in 1..Len(stack) : stack[k].kind # "stage" /\ stack[k].idx < i

\* C5 (as claimed): in the first operation on a pipeline, the stages' key is
\* on the bus only if a render or deploy of a stage has completed without
\* error in this run.
C5_KeyOnlyAfterSuccess ==
    (runs = 1 /\ PipelineDirectory \in DOMAIN data) =>
        /\ op \in {"render", "deploy"}
        /\ \E n \in 1..Len(log) : log[n].ev = "op" /\ log[n].res = "ok"

\* C6: in Stages.deploy check() is called exactly after a deploy() that
\* returned without error, it is never called in render or destroy, and a
\* check that fails aborts the run.
C6_CheckAfterDeploy ==
    /\ \A n \in 1..Len(log) :
          log[n].ev = "check" =>
              /\ op = "deploy"
              /\ n > 1
              /\ log[n - 1] = Event("op", log[n].idx, "ok")
              /\ (log[n].res # "ok" =>
                     /\ OnlyUnwindAfter(n)
                     /\ ~InLoop
                     /\ (Finished => result = "raised"))
    /\ \A n \in 1..Len(log) :
          (op = "deploy" /\ log[n].ev = "op") =>
              IF log[n].res = "ok"
                THEN IF n = Len(log)
                       THEN pc = "check" /\ i = log[n].idx
                       ELSE log[n + 1].ev = "check" /\ log[n + 1].idx = log[n].idx
                ELSE pc # "check" /\ OnlyUnwindAfter(n)
    /\ (pc = "check" => op = "deploy")

\* C6 witness: a deploy aborted by the failing check of a stage that is
\* neither the first nor the last of the pipeline.
C6_Witness ==
    /\ Finished
    /\ op = "deploy"
    /\ result = "raised"
    /\ \E n \in 1..Len(log) :
          /\ log[n].ev = "check"
          /\ log[n].res # "ok"
          /\ log[n].idx > 1
          /\ log[n].idx < Len(stages)

\* C7 (as claimed): Stage.destroy(ignore_errors=True) whose backend call
\* fails with a TerraformException returns False and does not raise.
C7_IgnoreErrorsSuppresses ==
    (call.ignore_errors /\ call.out = "TerraformException") => call.ret = "False"

\* C8 (as claimed): in Stages.destroy, once the backend destroy of the stage
\* at position k has failed, the destroy of no later stage is invoked.
C8_DestroyAborts ==
    op = "destroy" =>
        \A n \in 1..Len(log) :
            (log[n].ev = "backend" /\ log[n].res # "ok") =>
                \A m \in 1..Len(log) : log[m].ev = "op" => log[m].idx <= log[n].idx

\* The credential the scope of stage k reads is on the bus.
CredentialPresent(k) ==
    /\ ScopeKey(stages[k]) \in DOMAIN data
    /\ ScopePath(stages[k]) \in data[ScopeKey(stages[k])].outs

\* C9: entering a credential scope whose source entry or credential output
\* is absent from the bus raises: no provider context is activated, the
\* operation, backend call and check of the stage are never invoked, no later
\* stage runs and the Stages operation raises.
C9_MissingCredentialAborts ==
    /\ \A n \in 1..Len(log) :
          (log[n].ev \in {"activate", "op", "backend", "check"}
              /\ ScopeKey(stages[log[n].idx]) # "none") =>
                  CredentialPresent(log[n].idx)
    /\ (pc \in {"operate", "check"} /\ ScopeKey(stages[i]) # "none") =>
          CredentialPresent(i)
    /\ \A n \in 1..Len(log) :
          (log[n].ev = "enter" /\ ~CredentialPresent(log[n].idx)
              /\ ScopeKey(stages[log[n].idx]) # "none") =>
                  /\ log[n].res = "KeyError"
                  /\ OnlyUnwindAfter(n)
                  /\ ~InLoop
                  /\ exc = "KeyError"
                  /\ (Finished => result = "raised")
                  /\ \A k \in 1..Len(stack) : stack[k].idx < log[n].idx

\* C9 witness: an operation that raised from the scope entry of a stage
\* whose source entry is on the bus without the credential output.
C9_Witness ==
    /\ Finished
    /\ result = "raised"
    /\ \E n \in 1..Len(log) :
          /\ log[n].ev = "enter"
          /\ log[n].res = "KeyError"
          /\ ScopeKey(stages[log[n].idx]) \in DOMAIN data
          /\ log[n].idx > 1

\* C10 (as claimed): deploy of [state-backend, infrastructure, cluster-init]
\* in which every construction, stage deploy, backend call and check that
\* was made succeeded returns,
\* with an entry on the bus for each of the three stages and exactly one
\* activation and one deactivation of the cluster provider context.
C10_ThreeStageDeploy ==
    ( /\ stages = << "TerraformStateLocal", "Infrastructure", "KubernetesInitialize" >>
      /\ op = "deploy"
      /\ Finished
      /\ \A n \in 1..Len(log) :
            log[n].ev \in {"construct", "op", "backend", "check"} =>
                log[n].res = "ok" )
    => /\ result = "returned"
       /\ Len(SelectSeq(log, LAMBDA e : e.ev = "activate")) = 1
       /\ Len(SelectSeq(log, LAMBDA e : e.ev = "deactivate")) = 1
       /\ PipelineDirectory \in DOMAIN data
       /\ K8sKey \in DOMAIN data

\* C11 (as claimed): a stage constructed for a provider that is not in its
\* capability set fails at construction, and the backend is never invoked
\* for it.
C11_CapabilityChecked ==
    /\ \A n \in 1..Len(log) :
          (log[n].ev = "construct" /\ provider \notin Capability(stages[log[n].idx]))
              => log[n].res # "ok"
    /\ \A n \in 1..Len(backend) :
          provider \in Capability(stages[backend[n].idx])

\* The class whose declared directory names the entry the scope of class c
\* reads.
SourceClass(c) ==
    CASE c = "KubernetesInitialize" -> "Infrastructure"
      [] c = "KubernetesKeyCloackConfiguration" -> "KubernetesKeyCloak"
      [] OTHER -> "none"

\* A scoped stage is placed before the stage whose output its scope reads.
Misordered(p) ==
    \E j, k \in 1..Len(p) : j < k /\ p[k] = SourceClass(p[j])

\* C12 (as claimed): a pipeline that places a scoped stage before the source
\* of its credential is rejected before any stage is entered or operated
\* and before any backend call: no scope entry succeeds, no context is
\* activated and no stage operation, backend call or check is made.
C12_MisorderRejected ==
    Misordered(stages) =>
        /\ \A n \in 1..Len(log) :
              /\ log[n].ev \notin {"activate", "op", "backend", "check"}
              /\ log[n].ev = "enter" => log[n].res # "ok"
        /\ backend = << >>
        /\ result # "returned"

\* The keys written by the renders that completed in this run before
\* stage k.
KeysWrittenBefore(k) ==
    { WriteKey(stages[log[n].idx]) :
        n \in { m \in 1..Len(log) : /\ op = "render"
                                    /\ log[m].ev = "op"
                                    /\ log[m].res = "ok"
                                    /\ log[m].idx < k } }

\* C13 (as claimed): distinct stages write the bus under distinct keys, and
\* the render of a stage leaves the entries written by the other stages of
\* the run unchanged.
C13_NoCrossStageWrite ==
    [][ (pc = "operate" /\ op = "render") =>
            \A key \in KeysWrittenBefore(i) :
                /\ key # WriteKey(stages[i])
                /\ key \in DOMAIN data'
                /\ data'[key] = data[key] ]_vars

C15_RenderIdempotent ==
    (prev.rendered /\ op = "render" /\ Finished /\ result = "returned") =>
        /\ data = prev.data
        /\ stack = << >>

\* C15 witness: two renders of a pipeline of several stages have returned.
C15_Witness ==
    /\ prev.rendered
    /\ op = "render"
    /\ Finished
    /\ result = "returned"
    /\ Len(stages) >= 2
    /\ PipelineDirectory \in DOMAIN data

\* Event b may directly follow event a in the log of an operation o: the
\* work of stage k is construct, (activate,) enter, (backend,) op and, in
\* deploy, check; the construction of stage k + 1 follows the completed
\* work of stage k; unwinding follows anything and is followed by nothing
\* else.
Follows(o, a, b) ==
    IF b.ev \in {"exit", "deactivate"} THEN TRUE
    ELSE CASE a.ev = "construct" ->
                a.res = "ok" /\ b.idx = a.idx /\ b.ev \in {"enter", "activate"}
           [] a.ev = "activate" -> b = Event("enter", a.idx, "ok")
           [] a.ev = "enter" ->
                a.res = "ok" /\ b.idx = a.idx /\ b.ev \in {"op", "backend"}
           [] a.ev = "backend" -> b.ev = "op" /\ b.idx = a.idx
           [] a.ev = "op" ->
                IF o = "deploy"
                  THEN b.ev = "check" /\ b.idx = a.idx
                  ELSE b.ev = "construct" /\ b.idx = a.idx + 1
           [] a.ev = "check" -> b.ev = "construct" /\ b.idx = a.idx + 1
           [] OTHER -> FALSE

\* C18: every Stages operation (destroy too) visits the stages once each in
\* list order: the work of stage k is construct, enter, operate (and check
\* in deploy) in this order, all of it completed before stage k + 1 is
\* constructed, and an operation that returns has operated (and in deploy
\* checked) the last stage.
C18_VisitsInOrder ==
    /\ log # << >> => (log[1].ev = "construct" /\ log[1].idx = 1)
    /\ \A n \in 1..(Len(log) - 1) : Follows(op, log[n], log[n + 1])
    /\ (Finished /\ result = "returned") =>
          \E n \in 1..Len(log) :
              /\ log[n].ev = IF op = "deploy" THEN "check" ELSE "op"
              /\ log[n].idx = Len(stages)

\* C18 witness: a destroy of three stages has returned.
C18_Witness ==
    /\ Finished
    /\ result = "returned"
    /\ op = "destroy"
    /\ Len(stages) >= 3

\* C19: once an operation is aborting, the bus entries written by the
\* stages that completed before the failing stage are not removed or
\* altered, by the failing step or by the unwinding.
C19_NoRollback ==
    [][ (pc # "idle" /\ exc' # "none") =>
            /\ \A key \in KeysWrittenBefore(i) :
                  key \in DOMAIN data' /\ data'[key] = data[key]
            /\ (op # "render" => data' = data) ]_vars

\* C19 witness: a render has raised in a stage after the first, and the
\* entry written by the stage before it is on the bus.
C19_Witness ==
    /\ Finished
    /\ result = "raised"
    /\ op = "render"
    /\ i >= 2
    /\ \E n \in 1..Len(log) : log[n] = Event("op", i - 1, "ok")
    /\ \E n \in 1..Len(log) : log[n].ev = "op" /\ log[n].idx = i /\ log[n].res # "ok"
    /\ data[WriteKey(stages[i - 1])] = TfEntry(stages[i - 1])

\* C20 (as claimed): the target handed to the backend for a stage is
\* <root>/<the stage's declared directory>/<provider>, and distinct stages
\* of one pipeline get distinct targets.
C20_TargetPerStage ==
    /\ \A n \in 1..Len(backend) :
          DeclaredDirectory(stages[backend[n].idx]) # "none" =>
              backend[n].target =
                  << PipelineRoot, DeclaredDirectory(stages[backend[n].idx]), provider >>
    /\ \A n, m \in 1..Len(backend) :
          backend[n].idx # backend[m].idx => backend[n].target # backend[m].target

\* A configuration value of the form "QHUB_SECRET_" followed by a name.
IsPlaceholder(v) ==
    Len(v) > Len(Prefix) /\ SubSeq(v, 1, Len(Prefix)) = Prefix

\* The name that follows "QHUB_SECRET_" in a placeholder.
PlaceholderName(v) == SubSeq(v, Len(Prefix) + 1, Len(v))

\* C16 (as claimed): set_env_vars_in_config replaces every value
\* "QHUB_SECRET_" + XXX by the value of the environment variable named
\* exactly XXX, and raises if one of these variables is unset or empty.
C16_SecretFromExactName ==
    secretOut.status # "none" =>
        IF \E k \in DOMAIN config :
              /\ IsPlaceholder(config[k])
              /\ EnvironGet(environ, PlaceholderName(config[k])) \in {NoneValue, << >>}
          THEN secretOut.status = "EnvironmentError"
          ELSE /\ secretOut.status = "returned"
               /\ \A k \in DOMAIN config :
                     secretOut.config[k] =
                         IF IsPlaceholder(config[k])
                           THEN EnvironGet(environ, PlaceholderName(config[k]))
                           ELSE config[k]

Deletable == { DeletableDirs[k] : k \in 1..Len(DeletableDirs) }

DestroyInvocation(k) == Invocation(k, stages[k], provider, TRUE, TRUE, FALSE, TRUE)

\* C21 (as claimed): stage.destroy() with default arguments, once its
\* input variables and state imports are computed, makes exactly one backend
\* invocation, on the stage's target with init, imports and destroy set and
\* apply clear; it returns True exactly when the invocation did not fail and
\* False, without raising, when it failed with a TerraformException; the
\* bus and the stack are left as they were.
C21_DestroyInvokesOnce ==
    [][ (call = NoCall /\ call' # NoCall /\ ~call'.ignore_errors
           /\ call'.out # "Exception") =>
            /\ \E k \in 1..Len(stages) :
                  /\ stages[k] = call'.cls
                  /\ backend' = Append(backend, DestroyInvocation(k))
            /\ call'.out \in {"ok", "TerraformException"}
            /\ (call'.ret = "True") <=> (call'.out = "ok")
            /\ (call'.out = "TerraformException") => (call'.ret = "False")
            /\ data' = data
            /\ stack' = stack ]_vars

\* The invocations in b made for the stage at position k.
InvocationsOf(b, k) == SelectSeq(b, LAMBDA inv : inv.idx = k)

\* C23 (as claimed): in Stages.deploy the deploy of a TerraformStateCloud
\* stage, once its arguments are computed, returns after exactly one backend
\* invocation on its target with imports set, and the deploy of a
\* TerraformStateLocal stage returns without any backend invocation.
C23_StateDeployTerminates ==
    op = "deploy" =>
        \A n \in 1..Len(log) :
            (log[n].ev = "op" /\ log[n].res # "Exception") =>
                LET k == log[n].idx IN
                  /\ stages[k] = "TerraformStateCloud" =>
                        /\ log[n].res = "ok"
                        /\ Len(InvocationsOf(backend, k)) = 1
                        /\ InvocationsOf(backend, k)[1].imports
                        /\ InvocationsOf(backend, k)[1].target
                              = Target(stages[k], provider)
                  /\ stages[k] = "TerraformStateLocal" =>
                        /\ log[n].res = "ok"
                        /\ InvocationsOf(backend, k) = << >>

\* ------------------------------------------------ C22: render_template
\* The statement s of render_template has completed without raising.
Done(s) ==
    \E k \in 1..Len(RenderSteps) :
        /\ RenderSteps[k] = s
        /\ (k < step \/ (k = step /\ renderOut = "returned"))

\* The entries under the output directory as they are now.
CurrentTree == IF removeOut = NoRemoveOut THEN tree ELSE removeOut.tree

\* render_template has failed at statement s.
FailedAt(s) ==
    /\ step \in 1..Len(RenderSteps)
    /\ RenderSteps[step] = s
    /\ renderOut \notin {"none", "returned"}

\* C22: remove_existing_renders is called only after the configuration is
\* loaded and secret substitution and every patch have succeeded; when
\* render_template fails because the config file is missing, a secret
\* variable is unset or an extension code is unknown, the removal has not
\* run and every previously rendered entry is still there.
C22_RemoveAfterConfigured ==
    /\ removeOut # NoRemoveOut =>
          /\ Done("load")
          /\ Done("secrets") /\ secretOut.status = "returned"
          /\ Done("dask")
          /\ Done("patch")
    /\ (FailedAt("load") \/ FailedAt("secrets") \/ FailedAt("dask") \/ FailedAt("patch")) =>
          /\ removeOut = NoRemoveOut
          /\ \A e \in EntryNames : CurrentTree[e] = tree[e]

\* C22 witness: over a previous render, render_template has failed on an
\* unset secret variable.
C22_Witness ==
    /\ FailedAt("secrets")
    /\ renderOut = "EnvironmentError"
    /\ Done("load")
    /\ \A e \in Deletable \ {".gitlab-ci.yml"} : tree[e] = "dir"
====
